---- MODULE Spec2Model ----
(***************************************************************************)
(* Model of hw5code.py: find_best_split (Gini split search over one        *)
(* feature) and DecisionTree (_fit_node recursion, predict).               *)
(*                                                                         *)
(* Numbers.  find_best_split converts the feature to float64 (line 28).    *)
(* A float64 is modelled as a dyadic number m * 2^e with a small mantissa  *)
(* m and an exponent e >= EMin; sums of small mantissas are exact,         *)
(* halving is exact above EMin and rounds half-to-even at EMin, as IEEE    *)
(* 754 does.  Real feature values are drawn on the grid e = EMin (the      *)
(* doubles 0, 5e-324, 1e-323, ...), which holds both pairs whose midpoint  *)
(* is representable and neighbouring doubles whose midpoint is not; the    *)
(* same rounding happens between neighbours in every binade, for example   *)
(* (1.0 + 1.0000000000000002) / 2 = 1.0.  Category ranks are the integers  *)
(* 0, 1, 2, ... (e = 0).  Gini values are kept as exact fractions          *)
(* <<num, den>> and compared by cross-multiplication.                      *)
(***************************************************************************)
EXTENDS Integers, Sequences, FiniteSets, TLC

\* ---------------------------------------------------------------- bounds
MaxRows == 3        \* rows of the sample matrix given to fit
MaxVal == 2         \* feature values / category ids are 0..MaxVal
MaxDepthCfg == 1    \* finite max_depth settings are 0..MaxDepthCfg
MaxMinSplit == 4    \* min_samples_split settings are 3..MaxMinSplit
MaxMinLeaf == 2     \* min_samples_leaf settings are 1..MaxMinLeaf
MaxSplitLen == 4    \* length of the vectors given to find_best_split alone

\* float64: exponent of the smallest positive double, 2^-1074
EMin == -1074

VARIABLES
    \* a direct call of find_best_split
    feature_vector, target_vector, fs_pc, fs_result,
    \* a DecisionTree, its training data and its fit / predict calls
    feature_types, max_depth, min_samples_split, min_samples_leaf,
    X, y, tree, stack, pc, predicted,
    \* history: the arguments and the outcome of every _fit_node call, by path
    calls

vars == <<feature_vector, target_vector, fs_pc, fs_result,
          feature_types, max_depth, min_samples_split, min_samples_leaf,
          X, y, tree, stack, pc, predicted, calls>>

splitVars == <<feature_vector, target_vector, fs_pc, fs_result>>
treeVars == <<feature_types, max_depth, min_samples_split, min_samples_leaf,
              X, y, tree, stack, pc, predicted, calls>>

\* ------------------------------------------------------------ sequences
RECURSIVE SumSeq(_)
SumSeq(s) == IF s = <<>> THEN 0 ELSE Head(s) + SumSeq(Tail(s))

\* s[mask]: numpy boolean-mask indexing (mask and s of the same length)
RECURSIVE MaskSelect(_, _)
MaskSelect(s, mask) ==
    IF s = <<>> THEN <<>>
    ELSE IF Head(mask) THEN <<Head(s)>> \o MaskSelect(Tail(s), Tail(mask))
         ELSE MaskSelect(Tail(s), Tail(mask))

\* the one element of a singleton set.  The({F(v) : v \in {e}}) is F(e) with
\* e computed once.
The(S) == CHOOSE r \in S : TRUE

\* the sequence s written out (the same value, its elements computed once)
Explicit(s) == s \o <<>>

Reverse(s) == Explicit([i \in 1..Len(s) |-> s[Len(s) + 1 - i]])

\* ------------------------------------------------------------- float64
Flt(m, e) == [m |-> m, e |-> e]

RECURSIVE Pow2(_)
Pow2(n) == IF n <= 0 THEN 1 ELSE 2 * Pow2(n - 1)

MinExp(a, b) == IF a.e <= b.e THEN a.e ELSE b.e

\* mantissa of a at the (lower or equal) exponent e
MantAt(a, e) == a.m * Pow2(a.e - e)

FLess(a, b) == MantAt(a, MinExp(a, b)) < MantAt(b, MinExp(a, b))
FEq(a, b) == MantAt(a, MinExp(a, b)) = MantAt(b, MinExp(a, b))
FGeq(a, b) == ~FLess(a, b)

\* a + b: exact for the small mantissas of the model
FAdd(a, b) == Flt(MantAt(a, MinExp(a, b)) + MantAt(b, MinExp(a, b)), MinExp(a, b))

\* a / 2 rounded to the nearest double, ties to the even mantissa
FHalf(a) ==
    IF a.e > EMin THEN Flt(a.m, a.e - 1)
    ELSE IF a.m % 2 = 0 THEN Flt(a.m \div 2, EMin)
    ELSE IF ((a.m - 1) \div 2) % 2 = 0 THEN Flt((a.m - 1) \div 2, EMin)
    ELSE Flt((a.m + 1) \div 2, EMin)

\* ------------------------------------------------------------ fractions
Frac(n, d) == <<n, d>>
RLess(p, q) == p[1] * q[2] < q[1] * p[2]
REq(p, q) == p[1] * q[2] = q[1] * p[2]

\* ------------------------------------------------------ find_best_split
\* np.argsort: sort_indexes[k] is the index of the k-th smallest element.
\* Equal elements are ordered by index; every quantity below depends only
\* on the multiset of (value, label) pairs, not on that order.
SortPos(fv, i) ==
    1 + Cardinality({j \in 1..Len(fv) :
                        FLess(fv[j], fv[i]) \/ (FEq(fv[j], fv[i]) /\ j < i)})

ArgSort(fv) ==
    Explicit([k \in 1..Len(fv) |-> CHOOSE i \in 1..Len(fv) : SortPos(fv, i) = k])

\* s[idx]: numpy integer-array indexing
TakeIdx(s, idx) == Explicit([k \in 1..Len(idx) |-> s[idx[k]]])

\* np.unique: the distinct values, ascending
Unique(s) ==
    LET vals == {s[i] : i \in 1..Len(s)}
    IN  Explicit([k \in 1..Cardinality(vals) |->
            CHOOSE v \in vals : Cardinality({w \in vals : FLess(w, v)}) = k - 1])

\* np.unique(s, return_index=True)[1]: for each distinct value, ascending, the
\* 0-based index of its first occurrence in s
UniqueIndex(s) ==
    LET u == Unique(s)
    IN  Explicit([k \in 1..Len(u) |->
            (CHOOSE i \in 1..Len(s) :
                /\ s[i] = u[k]
                /\ \A j \in 1..(i - 1) : s[j] # u[k]) - 1])

\* thresholds = (feature_vector_unique[1:] + feature_vector_unique[:-1]) / 2
Midpoint(a, b) == FHalf(FAdd(b, a))

Thresholds(u) == Explicit([i \in 1..(Len(u) - 1) |-> Midpoint(u[i], u[i + 1])])

\* unique_indexes[:-1]: for each distinct value but the last, the number of
\* sorted elements up to and including its last occurrence
LengthLeft(sfv) ==
    LET unique_indexes_reversed == UniqueIndex(Reverse(sfv))
        unique_indexes == Explicit([k \in 1..Len(unique_indexes_reversed) |->
                                       Len(sfv) - unique_indexes_reversed[k]])
    IN  SubSeq(unique_indexes, 1, Len(unique_indexes) - 1)

\* np.cumsum
CumSum(s) == Explicit([k \in 1..Len(s) |-> SumSeq(SubSeq(s, 1, k))])

\* fractions as the code combines them
RMul(p, q) == Frac(p[1] * q[1], p[2] * q[2])
RSub(p, q) == Frac(p[1] * q[2] - q[1] * p[2], p[2] * q[2])

\* H = 1 - p^2 - (1 - p)^2 with p = k / l
HR(k, l) == Frac(l * l - k * k - (l - k) * (l - k), l * l)

\* Qs[i] = -length_left / len(target) * HR_l - length_right / len(target) * HR_r
Qs(length_left, stv) ==
    LET n == Len(stv)
        cs == CumSum(stv)
    IN  Explicit([i \in 1..Len(length_left) |->
            LET ll == length_left[i]
                p1_for_lefts == cs[ll]
                length_rigth == n - ll
                p1_for_rights == SumSeq(stv) - p1_for_lefts
            IN  RSub(RMul(Frac(-ll, n), HR(p1_for_lefts, ll)),
                     RMul(Frac(length_rigth, n), HR(p1_for_rights, length_rigth)))])

\* np.argmax: the first index of a maximal element
ArgMaxMutLast(q) ==
    CHOOSE i \in 1..Len(q) :
        /\ \A j \in 1..Len(q) : ~RLess(q[i], q[j])
        /\ \A j \in (i + 1)..Len(q) : RLess(q[j], q[i])
ArgMax(q) ==
    CHOOSE i \in 1..Len(q) :
        /\ \A j \in 1..Len(q) : ~RLess(q[i], q[j])
        /\ \A j \in 1..(i - 1) : RLess(q[j], q[i])

\* lines 36-66, on the sorted feature and label vectors
SplitOfSorted(sfv, stv) ==
    The({IF Len(thresholds) = 0 THEN [err |-> "ValueError"]
         ELSE The({[err |-> "none",
                    thresholds |-> thresholds,
                    ginis |-> ginis,
                    threshold_best |-> thresholds[best],
                    gini_best |-> ginis[best]] : best \in {ArgMax(ginis)}}) :
         thresholds \in {Thresholds(Unique(sfv))},
         ginis \in {Qs(LengthLeft(sfv), stv)}})

\* find_best_split(feature_vector, target_vector).  err = "IndexError": the
\* label vector is shorter than the feature vector, target_vector[sort_indexes]
\* (line 34) indexes out of bounds.  err = "ValueError": the feature is
\* constant, np.argmax of an empty array (line 66).  A longer label vector is
\* cut to the labels the sort indexes name.
find_best_split(fv, tv) ==
    IF Len(tv) < Len(fv) THEN [err |-> "IndexError"]
    ELSE The({The({SplitOfSorted(sfv, stv) :
                   sfv \in {TakeIdx(fv, sort_indexes)},
                   stv \in {TakeIdx(tv, sort_indexes)}}) :
              sort_indexes \in {ArgSort(fv)}})

\* ------------------------------------------- find_best_split called alone
FloatVals(e) == {Flt(m, e) : m \in 0..MaxVal}
Labels == {0, 1}

SeqsOf(S, n) == [1..n -> S]

InitSplit ==
    /\ \E n \in 1..MaxSplitLen : \E e \in {EMin, 0} :
          /\ feature_vector \in SeqsOf(FloatVals(e), n)
          /\ target_vector \in SeqsOf(Labels, n)
    /\ fs_pc = "call"
    /\ fs_result = [err |-> "pending"]
    /\ feature_types = <<>> /\ max_depth = <<>>
    /\ min_samples_split = <<>> /\ min_samples_leaf = <<>>
    /\ X = <<>> /\ y = <<>> /\ tree = <<>> /\ stack = <<>>
    /\ pc = "idle" /\ predicted = <<>> /\ calls = <<>>

CallFindBestSplit ==
    /\ fs_pc = "call"
    /\ fs_result' = find_best_split(feature_vector, target_vector)
    /\ fs_pc' = "returned"
    /\ UNCHANGED <<feature_vector, target_vector>>
    /\ UNCHANGED treeVars

NextSplit == CallFindBestSplit

SpecSplit == InitSplit /\ [][NextSplit]_vars

\* ---------------------------------------------------------- DecisionTree
\* An optional setting: <<>> is None (for max_depth: np.inf), <<v>> is v.
None == <<>>
Some(v) == <<v>>

FeatureTypes == {"real", "categorical"}

\* node paths: <<>> is self._tree, then "left_child" / "right_child"
EmptyNode == [type |-> "empty"]

\* sub_X[:, feature] for the rows (indexes into X) of a subsample
Column(rows, f) == Explicit([i \in 1..Len(rows) |-> X[rows[i]][f]])

\* np.all(sub_y == sub_y[0])
AllSameMutOnes(labs) == \A i \in 1..Len(labs) : labs[i] = 1
AllSame(labs) == \A i \in 1..Len(labs) : labs[i] = labs[1]

CountOf(s, v) == Cardinality({i \in 1..Len(s) : s[i] = v})

\* Counter(sub_y).most_common(1)[0][0]: the most frequent label, the one met
\* first when the counts tie
MostCommonMutFirst(labs) == labs[1]
MostCommon(labs) ==
    LET other == 1 - labs[1]
    IN  IF CountOf(labs, other) > CountOf(labs, labs[1]) THEN other ELSE labs[1]

\* ratio[key] = clicks[key] / counts[key] over the subsample
Ratio(col, labs, c) ==
    Frac(Cardinality({i \in 1..Len(col) : col[i] = c /\ labs[i] = 1}),
         CountOf(col, c))

FirstIndex(s, v) == CHOOSE i \in 1..Len(s) : s[i] = v /\ \A j \in 1..(i - 1) : s[j] # v

\* categories_map: category -> rank in sorted(ratio.items(), key = ratio);
\* sorted is stable and the dict keeps first-occurrence order
CategoriesMapMutDesc(col, labs) ==
    LET cats == {col[i] : i \in 1..Len(col)}
    IN  [c \in cats |->
            Cardinality({d \in cats :
                \/ RLess(Ratio(col, labs, c), Ratio(col, labs, d))
                \/ /\ REq(Ratio(col, labs, d), Ratio(col, labs, c))
                   /\ FirstIndex(col, d) < FirstIndex(col, c)})]
CategoriesMap(col, labs) ==
    LET cats == {col[i] : i \in 1..Len(col)}
    IN  [c \in cats |->
            Cardinality({d \in cats :
                \/ RLess(Ratio(col, labs, d), Ratio(col, labs, c))
                \/ /\ REq(Ratio(col, labs, d), Ratio(col, labs, c))
                   /\ FirstIndex(col, d) < FirstIndex(col, c)})]

\* the feature vector handed to find_best_split (lines 98-117)
EncodedFeature(rows, labs, f) ==
    IF feature_types[f] = "real" THEN Column(rows, f)
    ELSE LET col == Column(rows, f)
             categories_map == CategoriesMap(col, labs)
         IN  Explicit([i \in 1..Len(col) |-> Flt(categories_map[col[i]], 0)])

\* list(map(x[0], filter(x[1] < threshold, categories_map.items()))): the
\* categories ranked below the threshold, in rank order
CategoriesBelow(categories_map, threshold) ==
    LET keep == {c \in DOMAIN categories_map : FLess(Flt(categories_map[c], 0), threshold)}
    IN  [k \in 1..Cardinality(keep) |->
            CHOOSE c \in keep : categories_map[c] = k - 1]

\* feature_vector < threshold
SplitMask(fv, threshold) == Explicit([i \in 1..Len(fv) |-> FLess(fv[i], threshold)])

NotMask(mask) == Explicit([i \in 1..Len(mask) |-> ~mask[i]])

\* subtrees_are_valid (lines 126-130)
SubtreesAreValidMutLeft(fv, threshold) ==
    LET left_size == Cardinality({i \in 1..Len(fv) : FLess(fv[i], threshold)})
    IN  min_samples_leaf = None \/ left_size >= min_samples_leaf[1]
SubtreesAreValid(fv, threshold) ==
    LET left_size == Cardinality({i \in 1..Len(fv) : FLess(fv[i], threshold)})
        right_size == Cardinality({i \in 1..Len(fv) : FGeq(fv[i], threshold)})
    IN  \/ min_samples_leaf = None
        \/ left_size >= min_samples_leaf[1] /\ right_size >= min_samples_leaf[1]

NoSplit == [err |-> "none", feature_best |-> None]

\* lines 124-143 for a feature that is not constant: fv is its encoded
\* feature vector, r what find_best_split returned for it
Consider(best, rows, labs, f, fv, r) ==
    IF r.err # "none" THEN [err |-> r.err]
    ELSE IF /\ SubtreesAreValid(fv, r.threshold_best)
            /\ (best.feature_best = None \/ RLess(best.gini_best, r.gini_best))
    THEN [err |-> "none",
          feature_best |-> Some(f),
          gini_best |-> r.gini_best,
          split |-> SplitMask(fv, r.threshold_best),
          threshold |-> r.threshold_best,
          threshold_best |->
              IF feature_types[f] = "real" THEN r.threshold_best
              ELSE CategoriesBelow(CategoriesMap(Column(rows, f), labs),
                                   r.threshold_best)]
    ELSE best

\* one pass of the loop over the features (lines 94-143).  With a label
\* vector whose length differs from the row count, Counter(sub_X[sub_y == 1,
\* feature]) (line 102) raises IndexError, and so does find_best_split when
\* the labels are fewer than the rows.
FeatureStep(best, rows, labs, f) ==
    IF best.err # "none" THEN best
    ELSE IF feature_types[f] = "categorical" /\ Len(rows) # Len(labs)
    THEN [err |-> "IndexError"]
    ELSE The({IF Cardinality({fv[i] : i \in 1..Len(fv)}) <= 1 THEN best
              ELSE The({Consider(best, rows, labs, f, fv, r) :
                        r \in {find_best_split(fv, labs)}}) :
              fv \in {EncodedFeature(rows, labs, f)}})

RECURSIVE SearchFrom(_, _, _, _)
SearchFrom(best, rows, labs, f) ==
    IF f > Len(feature_types) THEN best
    ELSE The({SearchFrom(b, rows, labs, f + 1) :
              b \in {FeatureStep(best, rows, labs, f)}})

\* continue_split_condition (lines 89-91)
ContinueSplitMutNoDepth(rows, depth) ==
    min_samples_split = None \/ Len(rows) >= min_samples_split[1]
ContinueSplit(rows, depth) ==
    /\ max_depth = None \/ depth < max_depth[1]
    /\ min_samples_split = None \/ Len(rows) >= min_samples_split[1]

\* the search of lines 88-143
Search(rows, labs, depth) ==
    IF ContinueSplit(rows, depth) THEN SearchFrom(NoSplit, rows, labs, 1) ELSE NoSplit

\* condition_terminal (lines 145-148)
ConditionTerminal(best, rows) ==
    \/ best.feature_best = None
    \/ min_samples_split # None /\ Len(rows) < min_samples_split[1]

\* ------------------------------------------------- fit, _fit_node, predict
Frame(rows, labs, path, depth) ==
    [rows |-> rows, labs |-> labs, path |-> path, depth |-> depth]

Top == Head(stack)

\* fit (lines 183-184)
Fit ==
    /\ pc = "constructed"
    /\ stack' = <<Frame([i \in 1..Len(X) |-> i], y, <<>>, 0)>>
    /\ pc' = "fit"
    /\ UNCHANGED <<feature_types, max_depth, min_samples_split, min_samples_leaf,
                   X, y, tree, predicted, calls>>
    /\ UNCHANGED splitVars

\* the node written by lines 155-163
InternalNode(best) ==
    IF feature_types[best.feature_best[1]] = "real"
    THEN [type |-> "nonterminal", feature_split |-> best.feature_best[1],
          threshold |-> best.threshold_best]
    ELSE [type |-> "nonterminal", feature_split |-> best.feature_best[1],
          categories_split |-> best.threshold_best]

\* What one call _fit_node(sub_X, sub_y, node, depth) does (lines 82-166):
\*   "raise"     sub_y[0] of an empty subsample (line 83) or an IndexError of
\*               the split search: nothing is written
\*   "pure"      lines 83-86
\*   "majority"  lines 145-153
\*   "split"     lines 155-166
FitNodeOutcome(f) ==
    IF f.labs = <<>> THEN [kind |-> "raise"]
    ELSE IF AllSame(f.labs)
    THEN [kind |-> "pure", node |-> [type |-> "terminal", class |-> f.labs[1]]]
    ELSE The({
        IF best.err # "none" THEN [kind |-> "raise"]
        ELSE IF ConditionTerminal(best, f.rows)
        THEN [kind |-> "majority",
              node |-> [type |-> "terminal", class |-> MostCommon(f.labs)],
              searched |-> ContinueSplit(f.rows, f.depth),
              found |-> best.feature_best # None]
        ELSE [kind |-> "split",
              node |-> InternalNode(best),
              threshold |-> best.threshold,
              split |-> best.split] :
        best \in {Search(f.rows, f.labs, f.depth)}})

\* The frames of the two recursive calls of lines 165-166, the left one first
ChildFrames(f, split) ==
    <<Frame(MaskSelect(f.rows, split), MaskSelect(f.labs, split),
            f.path \o <<"left_child">>, f.depth + 1),
      Frame(MaskSelect(f.rows, NotMask(split)), MaskSelect(f.labs, NotMask(split)),
            f.path \o <<"right_child">>, f.depth + 1)>>

\* One call of _fit_node, the one on top of the stack.  The recursive calls
\* of a split run one after the other, the left one first: the right call
\* waits below it on the stack.  An exception unwinds every pending call.
\* When the label vector and the rows differ in length, sub_y[split] (line
\* 165) raises IndexError after the node and its two empty children are
\* written (lines 155-164).
FitNode ==
    /\ pc = "fit"
    /\ \E f \in {Top} : \E out \in {FitNodeOutcome(f)} :
       LET matched == Len(f.rows) = Len(f.labs)
       IN  /\ tree' =
                 IF out.kind = "raise" THEN tree
                 ELSE IF out.kind = "split"
                 THEN (f.path \o <<"left_child">> :> EmptyNode) @@
                      (f.path \o <<"right_child">> :> EmptyNode) @@
                      [tree EXCEPT ![f.path] = out.node]
                 ELSE [tree EXCEPT ![f.path] = out.node]
           /\ stack' =
                 IF out.kind = "raise" THEN <<>>
                 ELSE IF out.kind = "split"
                 THEN IF matched THEN ChildFrames(f, out.split) \o Tail(stack) ELSE <<>>
                 ELSE Tail(stack)
           /\ pc' =
                 IF out.kind = "raise" \/ (out.kind = "split" /\ ~matched) THEN "error"
                 ELSE IF out.kind = "split" \/ Tail(stack) # <<>> THEN "fit"
                 ELSE "done"
           /\ calls' =
                 (f.path :>
                    [kind |-> out.kind, rows |-> f.rows, labs |-> f.labs,
                     depth |-> f.depth,
                     searched |-> IF out.kind = "majority" THEN out.searched
                                  ELSE out.kind = "split",
                     threshold |-> IF out.kind = "split" THEN <<out.threshold>> ELSE <<>>,
                     left_rows |-> IF out.kind = "split" /\ matched
                                   THEN ChildFrames(f, out.split)[1].rows ELSE <<>>,
                     right_rows |-> IF out.kind = "split" /\ matched
                                    THEN ChildFrames(f, out.split)[2].rows ELSE <<>>])
                 @@ calls
    /\ UNCHANGED <<feature_types, max_depth, min_samples_split, min_samples_leaf,
                   X, y, predicted>>
    /\ UNCHANGED splitVars

\* the test of _predict_node that routes x to the left child (lines 174-179)
GoesLeft(x, node) ==
    IF feature_types[node.feature_split] = "real"
    THEN FLess(x[node.feature_split], node.threshold)
    ELSE x[node.feature_split] \in
            {node.categories_split[k] : k \in 1..Len(node.categories_split)}

\* _predict_node (lines 168-181)
RECURSIVE PredictNode(_, _)
PredictNode(x, path) ==
    IF tree[path].type = "terminal" THEN tree[path].class
    ELSE IF GoesLeft(x, tree[path]) THEN PredictNode(x, path \o <<"left_child">>)
    ELSE PredictNode(x, path \o <<"right_child">>)

\* predict (lines 186-190), on the training rows
Predict ==
    /\ pc = "done"
    /\ predicted' = [i \in 1..Len(X) |-> PredictNode(X[i], <<>>)]
    /\ pc' = "predicted"
    /\ UNCHANGED <<feature_types, max_depth, min_samples_split, min_samples_leaf,
                   X, y, tree, stack, calls>>
    /\ UNCHANGED splitVars

\* ------------------------------------------------------------ the inputs
RealVals == FloatVals(EMin)
\* a category is a value of the sample matrix like any other: 0.0, 1.0, ...
Categories == FloatVals(0)

MaxDepths == {None} \cup {Some(d) : d \in 0..MaxDepthCfg}
MinSplits == {None} \cup {Some(k) : k \in 3..MaxMinSplit}
MinLeaves == {None} \cup {Some(k) : k \in 1..MaxMinLeaf}

\* the sample matrix has a real column and a categorical column, in either order
Schemas == {<<"real", "categorical">>, <<"categorical", "real">>}

\* the rows that fit the feature types
RowsOf(types) ==
    {r \in [1..Len(types) -> RealVals \cup Categories] :
        \A f \in 1..Len(types) :
            IF types[f] = "real" THEN r[f] \in RealVals ELSE r[f] \in Categories}

\* __init__ (lines 70-80) with valid feature types, then the data of one fit
InitTree(nx, ny) ==
    /\ feature_types \in Schemas
    /\ max_depth \in MaxDepths
    /\ min_samples_split \in MinSplits
    /\ min_samples_leaf \in MinLeaves
    /\ X \in [1..nx -> RowsOf(feature_types)]
    /\ y \in [1..ny -> Labels]
    /\ tree = (<<>> :> EmptyNode)
    /\ stack = <<>>
    /\ pc = "constructed"
    /\ predicted = <<>>
    /\ calls = <<>>
    /\ feature_vector = <<>> /\ target_vector = <<>>
    /\ fs_pc = "idle" /\ fs_result = [err |-> "pending"]

\* fit on a sample matrix and a label vector of the same length
Init == \E n \in 1..MaxRows : InitTree(n, n)

\* fit on a sample matrix and a label vector of different lengths
InitShape == \E nx \in 1..MaxRows : \E ny \in (1..MaxRows) \ {nx} : InitTree(nx, ny)

Next ==
    \/ Fit
    \/ FitNode
    \/ Predict

Spec == Init /\ [][Next]_vars

SpecShape == InitShape /\ [][Next]_vars

\* ============================================================== claims
\* ---- find_best_split (SpecSplit)
Returned == fs_pc = "returned" /\ fs_result.err = "none"

Indexes(s) == 1..Len(s)

\* C1: for a feature vector with at least two distinct values, every returned
\* threshold t leaves an element below it and an element not below it, the
\* thresholds are the arithmetic means of the adjacent distinct sorted values,
\* strictly ascending, and none equals an observed feature value.
C1_ThresholdsSeparate ==
    Returned =>
        LET u == Unique(feature_vector)
            th == fs_result.thresholds
        IN  /\ Len(th) = Len(u) - 1
            /\ \A i \in Indexes(th) :
                  /\ \E j \in Indexes(feature_vector) : FLess(feature_vector[j], th[i])
                  /\ \E j \in Indexes(feature_vector) : FGeq(feature_vector[j], th[i])
                  /\ \A j \in Indexes(feature_vector) : ~FEq(feature_vector[j], th[i])
                  /\ FEq(FAdd(th[i], th[i]), FAdd(u[i], u[i + 1]))
            /\ \A i \in 1..(Len(th) - 1) : FLess(th[i], th[i + 1])

\* the reference gain -(|L|/N) H(L) - (|R|/N) H(R), H(S) = 1 - p1^2 - p0^2,
\* from the label counts of L (nl elements, kl of them 1) and R
RefGain(nl, kl, nr, kr) ==
    Frac(-((nl * nl - kl * kl - (nl - kl) * (nl - kl)) * nr
           + (nr * nr - kr * kr - (nr - kr) * (nr - kr)) * nl),
         (nl + nr) * nl * nr)

\* C2: the gain returned for each candidate threshold t equals the reference
\* value computed by counting the labels of L = {x < t} and R = {x >= t}.
C2_GainIsReference ==
    Returned =>
        \A i \in Indexes(fs_result.thresholds) :
            LET t == fs_result.thresholds[i]
                L == {j \in Indexes(feature_vector) : FLess(feature_vector[j], t)}
                R == {j \in Indexes(feature_vector) : FGeq(feature_vector[j], t)}
                kl == Cardinality({j \in L : target_vector[j] = 1})
                kr == Cardinality({j \in R : target_vector[j] = 1})
            IN  /\ L # {} /\ R # {}
                /\ REq(fs_result.ginis[i],
                       RefGain(Cardinality(L), kl, Cardinality(R), kr))

\* C3: the best threshold is a candidate whose gain is the maximum over all
\* candidates, no candidate of that same gain is smaller, and the best gain
\* returned is that maximum.
C3_BestIsSmallestMax ==
    Returned =>
        LET th == fs_result.thresholds
            g == fs_result.ginis
        IN  /\ \E i \in Indexes(th) :
                  /\ FEq(th[i], fs_result.threshold_best)
                  /\ REq(g[i], fs_result.gini_best)
            /\ \A j \in Indexes(th) :
                  /\ ~RLess(fs_result.gini_best, g[j])
                  /\ REq(g[j], fs_result.gini_best)
                        => ~FLess(th[j], fs_result.threshold_best)

\* two candidates of different value tie at the maximum gain
C3_Witness ==
    /\ Returned
    /\ \E i, j \in Indexes(fs_result.thresholds) :
          /\ FLess(fs_result.thresholds[i], fs_result.thresholds[j])
          /\ REq(fs_result.ginis[i], fs_result.ginis[j])
          /\ REq(fs_result.ginis[i], fs_result.gini_best)
          /\ FEq(fs_result.thresholds[i], fs_result.threshold_best)
    /\ fs_result.gini_best[1] < 0

\* ---- DecisionTree (Spec, SpecShape)
Elems(s) == {s[i] : i \in 1..Len(s)}

Pure(labs) == labs # <<>> /\ Cardinality(Elems(labs)) = 1
Mixed(labs) == Cardinality(Elems(labs)) > 1

Children(p) == {p \o <<"left_child">>, p \o <<"right_child">>}

\* fit has returned or raised: calls then holds every call of _fit_node made
FitEnded == pc \in {"done", "error"}

IsLeaf(p) == tree[p].type = "terminal" /\ Children(p) \cap DOMAIN tree = {}

\* a label no other label of the subsample is more frequent than
MostFrequent(labs, c) == \A d \in Labels : CountOf(labs, d) <= CountOf(labs, c)

\* the sides the best split of feature f makes of the subsample
LeftSize(rows, labs, f) ==
    The({Cardinality({i \in 1..Len(fv) :
                         FLess(fv[i], find_best_split(fv, labs).threshold_best)}) :
         fv \in {EncodedFeature(rows, labs, f)}})

Splittable(rows, labs, f) == Cardinality(Elems(EncodedFeature(rows, labs, f))) > 1

\* C4: a call of _fit_node on a non-empty subsample whose labels are all the
\* same leaves a Terminal node with that label and no children, whatever
\* max_depth, min_samples_split, min_samples_leaf and the depth are.
C4_PureIsTerminal ==
    FitEnded =>
        \A p \in DOMAIN calls :
            Pure(calls[p].labs) =>
                /\ IsLeaf(p)
                /\ tree[p].class = calls[p].labs[1]

\* a pure root of several rows, at depth 0, with every stopping rule set
\* against it
C4_Witness ==
    /\ <<>> \in DOMAIN calls
    /\ Pure(calls[<<>>].labs)
    /\ Len(calls[<<>>].labs) > 1
    /\ max_depth = Some(0)
    /\ min_samples_split # None
    /\ Len(calls[<<>>].rows) < min_samples_split[1]
    /\ min_samples_leaf # None
    /\ IsLeaf(<<>>)
    /\ FitEnded

\* every feature that can be split at all has a best split with a side of
\* fewer than k rows
TooSmall(rows, labs, f, k) ==
    \E left \in {LeftSize(rows, labs, f)} : left < k \/ Len(rows) - left < k

EverySplitTooSmall(rows, labs, k) ==
    \A f \in 1..Len(feature_types) :
        Splittable(rows, labs, f) => TooSmall(rows, labs, f, k)

\* C5: with min_samples_leaf = k, every Internal node sends at least k rows
\* to each child, and a node where every feature's best split leaves a side
\* smaller than k is a Terminal node with a majority class.
C5_LeafSize ==
    (FitEnded /\ min_samples_leaf # None) =>
        \A p \in DOMAIN calls :
            /\ calls[p].kind = "split" =>
                  /\ Len(calls[p].left_rows) >= min_samples_leaf[1]
                  /\ Len(calls[p].right_rows) >= min_samples_leaf[1]
            /\ \/ /\ IsLeaf(p)
                  /\ MostFrequent(calls[p].labs, tree[p].class)
               \/ ~(/\ Mixed(calls[p].labs)
                    /\ EverySplitTooSmall(calls[p].rows, calls[p].labs,
                                          min_samples_leaf[1]))

\* an Internal node made under min_samples_leaf, and a node that searched and
\* is Terminal because min_samples_leaf rejected the split of a feature
C5_Witness ==
    /\ FitEnded
    /\ min_samples_leaf # None
    /\ \E p \in DOMAIN calls : calls[p].kind = "split"
    /\ \E p \in DOMAIN calls :
          /\ calls[p].kind = "majority"
          /\ calls[p].searched
          /\ \E f \in 1..Len(feature_types) :
                Splittable(calls[p].rows, calls[p].labs, f)

\* C7: the rows an Internal node passes to its left child are the rows of its
\* subsample for which the stored test of predict holds, the rows passed to
\* the right child are the others, and neither side is empty.
C7_ChildrenPartition ==
    FitEnded =>
        \A p \in DOMAIN calls :
            calls[p].kind = "split" =>
                LET here == Elems(calls[p].rows)
                    goes == {r \in here : GoesLeft(X[r], tree[p])}
                IN  /\ Elems(calls[p].left_rows) = goes
                    /\ Elems(calls[p].right_rows) = here \ goes
                    /\ goes # {}
                    /\ here \ goes # {}

\* no feature gave a valid split: the depth stopped the search, or every
\* feature is constant or rejected by min_samples_leaf
NoValidSplit(c) ==
    \/ max_depth # None /\ c.depth >= max_depth[1]
    \/ \A f \in 1..Len(feature_types) :
          \/ ~Splittable(c.rows, c.labs, f)
          \/ /\ min_samples_leaf # None
             /\ TooSmall(c.rows, c.labs, f, min_samples_leaf[1])

\* C8: a call on a subsample of mixed labels where no feature gave a valid
\* split, or whose size is below a configured min_samples_split, leaves a
\* Terminal node whose class is a most frequent label, and no children.
C8_MajorityFallback ==
    FitEnded =>
        \A p \in DOMAIN calls :
            \/ /\ IsLeaf(p)
               /\ MostFrequent(calls[p].labs, tree[p].class)
            \/ ~(/\ Mixed(calls[p].labs)
                 /\ \/ /\ min_samples_split # None
                       /\ Len(calls[p].rows) < min_samples_split[1]
                    \/ NoValidSplit(calls[p]))

\* labels with one 1 among two 0, the 1 first, stopped by min_samples_split
C8_Witness ==
    /\ <<>> \in DOMAIN calls
    /\ calls[<<>>].labs = <<1, 0, 0>>
    /\ min_samples_split # None
    /\ Len(calls[<<>>].rows) < min_samples_split[1]
    /\ max_depth = None
    /\ IsLeaf(<<>>)
    /\ tree[<<>>].class = 0
    /\ FitEnded

\* the rank of category c when the categories of col are sorted by ascending
\* positive-label rate (ties in the order of first occurrence)
AscendingRank(col, labs, c) ==
    Cardinality({d \in Elems(col) :
        \/ RLess(Ratio(col, labs, d), Ratio(col, labs, c))
        \/ /\ REq(Ratio(col, labs, d), Ratio(col, labs, c))
           /\ FirstIndex(col, d) < FirstIndex(col, c)})

CategoricalSplit(p) ==
    /\ calls[p].kind = "split"
    /\ feature_types[tree[p].feature_split] = "categorical"

\* C9: the category set stored by an Internal node on a categorical feature
\* is the set of categories of the node's subsample whose rank by ascending
\* positive-label rate is below the winning threshold; it and its complement
\* in the observed categories are non-empty, and no stored category has a
\* higher rate than a category of the complement.
C9_CategorySet ==
    FitEnded =>
        \A p \in DOMAIN calls :
            CategoricalSplit(p) =>
                \E col \in {Column(calls[p].rows, tree[p].feature_split)} :
                LET labs == calls[p].labs
                    observed == Elems(col)
                    stored == Elems(tree[p].categories_split)
                IN  /\ stored = {c \in observed :
                                    FLess(Flt(AscendingRank(col, labs, c), 0),
                                          calls[p].threshold[1])}
                    /\ Len(tree[p].categories_split) = Cardinality(stored)
                    /\ stored # {}
                    /\ observed \ stored # {}
                    /\ \A a \in stored : \A b \in observed \ stored :
                          ~RLess(Ratio(col, labs, b), Ratio(col, labs, a))

\* a categorical split of three categories of three different rates
C9_Witness ==
    \E p \in DOMAIN calls :
        /\ FitEnded
        /\ CategoricalSplit(p)
        /\ Cardinality(Elems(Column(calls[p].rows, tree[p].feature_split))) = 3
        /\ \E a \in Elems(tree[p].categories_split) :
           \E b \in Elems(Column(calls[p].rows, tree[p].feature_split)) :
              RLess(Ratio(Column(calls[p].rows, tree[p].feature_split), calls[p].labs, a),
                    Ratio(Column(calls[p].rows, tree[p].feature_split), calls[p].labs, b))

\* the depth of a node is the length of its path
DepthBounded ==
    max_depth # None =>
        /\ \A p \in DOMAIN tree :
              /\ Len(p) <= max_depth[1]
              /\ tree[p].type = "nonterminal" => Len(p) < max_depth[1]
        /\ \A p \in DOMAIN calls :
              (Mixed(calls[p].labs) /\ calls[p].depth >= max_depth[1]) =>
                  /\ IsLeaf(p)
                  /\ ~calls[p].searched
                  /\ calls[p].depth = Len(p)

\* what is left of fit: shrinks with every call of _fit_node
RECURSIVE Pending(_)
Pending(st) ==
    IF st = <<>> THEN 0 ELSE 2 * Len(Head(st).rows) - 1 + Pending(Tail(st))

Measure == IF pc = "fit" THEN 2 + Pending(stack) ELSE 0

\* C10: with max_depth = d every Internal node is at depth below d and every
\* node at depth at most d, a subsample of mixed labels at depth >= d becomes
\* a Terminal node with no split search; and fit ends: while it runs a call
\* of _fit_node is pending (FitNode has no other guard), and each call lowers
\* a measure that is never negative.
C10_DepthAndTermination ==
    /\ []DepthBounded
    /\ [](Measure >= 0)
    /\ [](pc = "fit" => stack # <<>>)
    /\ [][pc = "fit" => Measure' < Measure]_vars

\* a tree with an Internal root whose child of mixed labels max_depth = 1 stops
C10_Witness ==
    /\ max_depth = Some(1)
    /\ pc = "done"
    /\ tree[<<>>].type = "nonterminal"
    /\ \E p \in DOMAIN calls :
          /\ calls[p].depth = 1
          /\ Mixed(calls[p].labs)
          /\ calls[p].kind = "majority"

\* ---- fit with a label vector of another length (SpecShape)
\* C6: fit on a sample matrix and a label vector of different lengths ends in
\* an error and builds no tree.
C6_MismatchFails ==
    Len(X) # Len(y) => pc \notin {"done", "predicted"}

====
